---- MODULE Spec2Model ----
(***************************************************************************)
(* Model of the convolution library of interleaved_vs_planar:              *)
(*   convolution/convolution.h   convolve1DHorizontalPlanar,               *)
(*                               convolve1DVerticalPlanar,                 *)
(*                               convolve1DHorizontalInterleaved,          *)
(*                               convolve1DVerticalInterleaved             *)
(*   convolution/convolution.cpp transposePlanar                           *)
(*   src/interleaved_vs_planar.cpp measureRuntimeBlur1D, main              *)
(*                                                                         *)
(* Specifications: Spec (one convolution call), TransposeSpec (a           *)
(* transposition and its inverse), LayoutSpec (the horizontal pass on      *)
(* both layouts of one image), PassSpec (the vertical pass, directly       *)
(* and through the transposition), BlurSpec (measureRuntimeBlur1D with     *)
(* and without a transposeFn), ChannelSpec (one call per channel on a      *)
(* shared result, run concurrently).                                       *)
(*                                                                         *)
(* A std::vector<float> is a sequence; element i of the C++ vector is      *)
(* element i + 1 of the sequence.  Samples and kernel weights are          *)
(* integers: the code's only arithmetic is a left-to-right sum of          *)
(* products, and rounding is not modelled.  `unsigned int` is WordBits     *)
(* wide: every unsigned expression of the code is reduced modulo           *)
(* Modulus, in the order the code evaluates it.  Vector lengths (size_t)   *)
(* are not reduced, and every vector is shorter than Modulus, as are the   *)
(* vectors the repository's callers build (main sizes its buffers with an  *)
(* unsigned int).  The image and the result are distinct vectors.          *)
(*                                                                         *)
(* An index outside its vector is undefined behaviour.  The model takes    *)
(* its outcomes to be: the run goes on (a read outside the vector yields   *)
(* some value of Garbage, a write outside the vector lands outside the     *)
(* modelled buffers) and the call returns true; or the run stops at the    *)
(* first such access ("crash").                                            *)
(***************************************************************************)
EXTENDS Integers, Sequences, FiniteSets, TLC

VARIABLES
    kernel,        \* the kernel argument
    image,         \* the image / src argument
    height,        \* the height argument
    width,         \* the width argument
    numChannels,   \* the numChannels argument
    channelIndex,  \* the channelIndex argument
    result,        \* the result / dst argument: before the call, then after it
    op,            \* the function called: "none" before the call
    ret,           \* what the call returned: "none", "true", "false", "crash"
    reads,         \* indices of image the call read
    writes,        \* indices of result the call wrote
    back,          \* the destination of a second transposePlanar call
    ret2,          \* what the second transposePlanar call returned
    transposed,    \* a caller's buffer for the transposed image
    workingBuffer, \* a caller's buffer between two passes
    progress       \* per channel, how far that channel's call has run

vars == <<kernel, image, height, width, numChannels, channelIndex, result,
          op, ret, reads, writes, back, ret2, transposed, workingBuffer,
          progress>>

\* The buffers of the callers that run several passes.
passVars == <<transposed, workingBuffer, progress>>

----------------------------------------------------------------------------
\* Bounds of the model.

\* Width, in bits, of `unsigned int` in the model.
WordBits == 4

\* Largest height and width passed to a call.
MaxDim == 5

\* Largest numChannels passed to a call.
MaxChannels == 2

Modulus == 2 ^ WordBits

\* Longest vector: every vector is shorter than Modulus.
MaxLen == Modulus - 1

\* The kernels passed to a call: lengths 0, 1, 2, 3 and 5, with weights that
\* tell the taps of a window apart.
KernelSet == {<< >>, <<3>>, <<1, 2>>, <<1, 2, 4>>, <<1, 2, 3, 4, 5>>}

\* What a read outside the image may yield.
Garbage == {0, 9}

\* The image contents: two patterns whose neighbouring samples differ.
Patterns == {1, 2}

Pattern(p, n) == [i \in 1..n |-> IF p = 1 THEN i ELSE ((i * i) % 7) + 1]

\* The result buffer before a call: distinct negative samples, which no
\* convolution or transposition of a Pattern (all samples positive, all
\* weights and Garbage non-negative) produces.
Blank(n) == [i \in 1..n |-> 0 - i]

\* Lengths of the image tried with a shape of product p = H*W*C (as a
\* mathematical product): the exact fit, one less, one more, four more, and for
\* a shape larger than any vector a short and a long vector.
ImageLengths(p) ==
    {n \in 0..MaxLen : n \in {p - 1, p, p + 1, p + 4}}
        \cup (IF p > MaxLen THEN {MaxLen \div 4, MaxLen} ELSE {})

\* Lengths of the result tried with an image of length n.
ResultLengths(n) == {m \in 0..MaxLen : m \in {n - 1, n, n + 1}}

----------------------------------------------------------------------------
\* unsigned int arithmetic: every result is reduced modulo 2^WordBits.
U(x) == x % Modulus

\* image[i], or the garbage a read outside the vector yields.
Read(v, i, garbage) == IF i < Len(v) THEN v[i + 1] ELSE garbage

\* The accumulation loop of one output sample:
\*   for (kernelIndex = 0; kernelIndex < kernel.size(); kernelIndex++)
\*       convolutionResult += kernel[kernelIndex] * image[start + kernelIndex * stride];
RECURSIVE convolutionResult(_, _, _, _, _, _)
convolutionResult(k, img, start, stride, garbage, kernelIndex) ==
    IF kernelIndex >= Len(k)
    THEN 0
    ELSE k[kernelIndex + 1] * Read(img, U(start + U(kernelIndex * stride)), garbage)
         + convolutionResult(k, img, start, stride, garbage, kernelIndex + 1)

\* The image indices the accumulation loop reads, in the order it reads them.
Window(k, start, stride) ==
    [n \in 1..Len(k) |-> U(start + U((n - 1) * stride))]

\* One iteration of the inner loop: the reads of the window, then the store
\* of the sum at result[at].
Store(at, k, img, start, stride, garbage) ==
    [at   |-> at,
     val  |-> convolutionResult(k, img, start, stride, garbage, 0),
     from |-> Window(k, start, stride)]

\* The four checks every convolution function starts with.
ValidationPasses(k, img, h, w, c, ch, res) ==
    /\ ~(Len(k) % 2 /= 1)
    /\ ~(ch >= c)
    /\ ~(Len(res) < Len(img))
    /\ ~(U(U(h * w) * c) > Len(img))

\* const unsigned int center = static_cast<unsigned int>(kernel.size()) / 2;
Center(k) == U(Len(k)) \div 2

\* The values the inner loop variable takes:
\*   for (x = center; x < dimension - center; x++)
\* with dimension - center computed in unsigned int.
InnerCount(dimension, center) ==
    IF U(dimension - center) > center THEN U(dimension - center) - center ELSE 0

----------------------------------------------------------------------------
\* convolve1DHorizontalPlanar

\* const unsigned int channelStart = height * width * channelIndex;
channelStartPlanar(h, w, ch) == U(U(h * w) * ch)

\* const unsigned int rowStart = channelStart + row * width;
rowStartHorizontalPlanar(channelStart, row, w) == U(channelStart + U(row * w))

\* Mutant of colStartHorizontalPlanar: the window starts at the output column,
\* not center columns before it.
colStartHorizontalPlanarNoCenter(rowStart, col, center) == U(rowStart + col)

\* const unsigned int colStart = rowStart + col - center;
colStartHorizontalPlanar(rowStart, col, center) == U(U(rowStart + col) - center)

\* The stores of the two loops, in program order: iteration t is row
\* (t - 1) div cols, col center + (t - 1) mod cols.
convolve1DHorizontalPlanar(k, img, h, w, c, ch, garbage) ==
    LET center == Center(k)
        channelStart == channelStartPlanar(h, w, ch)
        cols == InnerCount(w, center)
        iteration(row, col) ==
            LET rowStart == rowStartHorizontalPlanar(channelStart, row, w)
                colStart == colStartHorizontalPlanar(rowStart, col, center)
            IN  Store(U(rowStart + col), k, img, colStart, 1, garbage)
    IN  [t \in 1..(h * cols) |->
            iteration((t - 1) \div cols, center + ((t - 1) % cols))]

----------------------------------------------------------------------------
\* convolve1DVerticalPlanar

\* const unsigned int colStart = channelStart + col;
colStartVerticalPlanar(channelStart, col) == U(channelStart + col)

\* Mutant of rowStartVerticalPlanar: the row offset is not scaled by the width.
rowStartVerticalPlanarUnscaled(colStart, row, center, w) ==
    U(colStart + U(row - center))

\* const unsigned int rowStart = colStart + (row - center) * width;
rowStartVerticalPlanar(colStart, row, center, w) ==
    U(colStart + U(U(row - center) * w))

\* The stores of the two loops, in program order: iteration t is col
\* (t - 1) div rows, row center + (t - 1) mod rows.
convolve1DVerticalPlanar(k, img, h, w, c, ch, garbage) ==
    LET center == Center(k)
        channelStart == channelStartPlanar(h, w, ch)
        rows == InnerCount(h, center)
        iteration(col, row) ==
            LET colStart == colStartVerticalPlanar(channelStart, col)
                rowStart == rowStartVerticalPlanar(colStart, row, center, w)
            IN  Store(U(colStart + U(row * w)), k, img, rowStart, w, garbage)
    IN  [t \in 1..(w * rows) |->
            iteration((t - 1) \div rows, center + ((t - 1) % rows))]

----------------------------------------------------------------------------
\* convolve1DHorizontalInterleaved

\* Mutant of rowStrideInterleaved: the planar row stride, the width alone.
rowStrideInterleavedPlanar(c, w) == U(w)

\* const unsigned int pxStride = numChannels;
\* const unsigned int rowStride = pxStride * width;
rowStrideInterleaved(c, w) == U(c * w)

\* Mutant of rowStartHorizontalInterleaved: the row starts at channel 0's
\* sample, whatever the channel.
rowStartHorizontalInterleavedNoChannel(row, rowStride, ch) == U(row * rowStride)

\* const unsigned int rowStart = row * rowStride + channelIndex;
rowStartHorizontalInterleaved(row, rowStride, ch) == U(U(row * rowStride) + ch)

\* Mutant of colStartHorizontalInterleaved: the column offset is not scaled by
\* the pixel stride, so the window starts in another channel's samples.
colStartHorizontalInterleavedUnscaled(rowStart, pxCol, center, pxStride) ==
    U(rowStart + U(pxCol - center))

\* const unsigned int colStart = rowStart + (pxCol - center) * pxStride;
colStartHorizontalInterleaved(rowStart, pxCol, center, pxStride) ==
    U(rowStart + U(U(pxCol - center) * pxStride))

\* The stores of the two loops, in program order: iteration t is row
\* (t - 1) div cols, pxCol center + (t - 1) mod cols.
convolve1DHorizontalInterleaved(k, img, h, w, c, ch, garbage) ==
    LET center == Center(k)
        pxStride == c
        rowStride == rowStrideInterleaved(pxStride, w)
        cols == InnerCount(w, center)
        iteration(row, pxCol) ==
            LET rowStart == rowStartHorizontalInterleaved(row, rowStride, ch)
                colStart == colStartHorizontalInterleaved(rowStart, pxCol, center, pxStride)
            IN  Store(U(rowStart + U(pxCol * pxStride)), k, img, colStart, pxStride, garbage)
    IN  [t \in 1..(h * cols) |->
            iteration((t - 1) \div cols, center + ((t - 1) % cols))]

----------------------------------------------------------------------------
\* convolve1DVerticalInterleaved

\* const unsigned int colStart = col * pxStride + channelIndex;
colStartVerticalInterleaved(col, pxStride, ch) == U(U(col * pxStride) + ch)

\* const unsigned int rowStart = colStart + (row - center) * rowStride;
rowStartVerticalInterleaved(colStart, row, center, rowStride) ==
    U(colStart + U(U(row - center) * rowStride))

\* The stores of the two loops, in program order: iteration t is col
\* (t - 1) div rows, row center + (t - 1) mod rows.
convolve1DVerticalInterleaved(k, img, h, w, c, ch, garbage) ==
    LET center == Center(k)
        pxStride == c
        rowStride == rowStrideInterleaved(pxStride, w)
        rows == InnerCount(h, center)
        iteration(col, row) ==
            LET colStart == colStartVerticalInterleaved(col, pxStride, ch)
                rowStart == rowStartVerticalInterleaved(colStart, row, center, rowStride)
            IN  Store(U(colStart + U(row * rowStride)), k, img, rowStart, rowStride, garbage)
    IN  [t \in 1..(w * rows) |->
            iteration((t - 1) \div rows, center + ((t - 1) % rows))]

----------------------------------------------------------------------------
\* Running a sequence of stores against the two vectors.

\* Whether the iteration stays inside both vectors.
InBounds(s, imageLen, resultLen) ==
    /\ \A n \in DOMAIN s.from : s.from[n] < imageLen
    /\ s.at < resultLen

\* The iterations with an access outside a vector.
Faults(stores, imageLen, resultLen) ==
    {t \in DOMAIN stores : ~InBounds(stores[t], imageLen, resultLen)}

FirstFault(stores, imageLen, resultLen) ==
    CHOOSE t \in Faults(stores, imageLen, resultLen) :
        \A u \in Faults(stores, imageLen, resultLen) : t <= u

\* res after the first n stores, done in program order: each element holds the
\* value of the last store to it, if any; a store outside res does not change
\* res.
Commit(res, stores, n) ==
    [i \in 1..Len(res) |->
        LET hits == {t \in 1..n : stores[t].at = i - 1}
        IN  IF hits = {}
            THEN res[i]
            ELSE stores[CHOOSE t \in hits : \A u \in hits : u <= t].val]

ReadsOf(stores, n) ==
    UNION {{stores[t].from[m] : m \in DOMAIN stores[t].from} : t \in 1..n}

WritesOf(stores, n) == {stores[t].at : t \in 1..n}

\* The reads of the faulting iteration s, up to and including the first one
\* outside the image (all of them when only the write is outside the result).
FaultingReads(s, imageLen) ==
    {s.from[m] : m \in {n \in DOMAIN s.from :
                          \A j \in 1..(n - 1) : s.from[j] < imageLen}}

\* The write of the faulting iteration s: attempted when its reads were all
\* inside the image.
FaultingWrites(s, imageLen) ==
    IF \A n \in DOMAIN s.from : s.from[n] < imageLen THEN {s.at} ELSE {}

\* The run of a call to its end.  With every access inside the vectors this is
\* the call's behaviour; with some access outside, it is the outcome of the
\* undefined behaviour in which the run goes on.
Returned(res, stores) ==
    [ret    |-> "true",
     result |-> Commit(res, stores, Len(stores)),
     reads  |-> ReadsOf(stores, Len(stores)),
     writes |-> WritesOf(stores, Len(stores))]

\* The outcome of the undefined behaviour in which the run stops at the first
\* access outside a vector: the stores of the iterations before it are done.
Crashed(res, stores, imageLen) ==
    LET first == FirstFault(stores, imageLen, Len(res))
    IN  [ret    |-> "crash",
         result |-> Commit(res, stores, first - 1),
         reads  |-> ReadsOf(stores, first - 1)
                        \cup FaultingReads(stores[first], imageLen),
         writes |-> WritesOf(stores, first - 1)
                        \cup FaultingWrites(stores[first], imageLen)]

\* A call that fails validation: nothing is read or written.
Refused(res) ==
    [ret |-> "false", result |-> res, reads |-> {}, writes |-> {}]

\* The stores of the function named f.
StoresOf(f, k, img, h, w, c, ch, garbage) ==
    CASE f = "HorizontalPlanar" -> convolve1DHorizontalPlanar(k, img, h, w, c, ch, garbage)
      [] f = "VerticalPlanar" -> convolve1DVerticalPlanar(k, img, h, w, c, ch, garbage)
      [] f = "HorizontalInterleaved" -> convolve1DHorizontalInterleaved(k, img, h, w, c, ch, garbage)
      [] f = "VerticalInterleaved" -> convolve1DVerticalInterleaved(k, img, h, w, c, ch, garbage)

\* Every outcome of a call of the convolution function named f.
Outcomes(f, k, img, h, w, c, ch, res) ==
    IF ~ValidationPasses(k, img, h, w, c, ch, res)
    THEN {Refused(res)}
    ELSE IF Faults(StoresOf(f, k, img, h, w, c, ch, 0), Len(img), Len(res)) = {}
         THEN {Returned(res, StoresOf(f, k, img, h, w, c, ch, 0))}
         ELSE {Returned(res, StoresOf(f, k, img, h, w, c, ch, g)) : g \in Garbage}
                  \cup {Crashed(res, StoresOf(f, k, img, h, w, c, ch, 0), Len(img))}

----------------------------------------------------------------------------
\* transposePlanar

\* Mutant of TransposeValidationPasses: only the two lengths are compared.
TransposeValidationLengthsOnly(src, h, w, c, dst) == ~(Len(src) > Len(dst))

\* The two checks transposePlanar starts with.
TransposeValidationPasses(src, h, w, c, dst) ==
    /\ ~(Len(src) > Len(dst))
    /\ ~(U(U(h * w) * c) > Len(src))

\* const unsigned int chStart = ch * height * width;
chStartTranspose(ch, h, w) == U(U(ch * h) * w)

\* const unsigned int srcRowStart = chStart + srcRow * srcRowStride;
srcRowStartTranspose(chStart, srcRow, srcRowStride) ==
    U(chStart + U(srcRow * srcRowStride))

\* Mutant of dstIndexTranspose: every channel is stored over channel 0.
dstIndexTransposeNoChannel(chStart, srcCol, dstRowStride, srcRow) ==
    U(U(srcCol * dstRowStride) + srcRow)

\* The index of dst in: dst[chStart + srcCol * dstRowStride + srcRow] = ...
dstIndexTranspose(chStart, srcCol, dstRowStride, srcRow) ==
    U(U(chStart + U(srcCol * dstRowStride)) + srcRow)

\* The stores of the three loops, in program order: iteration t is channel
\* (t - 1) div (h * w), and within the channel srcRow ((t - 1) mod (h * w))
\* div w, srcCol (t - 1) mod w.
transposePlanar(src, h, w, c, garbage) ==
    LET srcRowStride == w
        dstRowStride == h
        iteration(ch, srcRow, srcCol) ==
            LET chStart == chStartTranspose(ch, h, w)
                srcRowStart == srcRowStartTranspose(chStart, srcRow, srcRowStride)
            IN  [at   |-> dstIndexTranspose(chStart, srcCol, dstRowStride, srcRow),
                 val  |-> Read(src, U(srcRowStart + srcCol), garbage),
                 from |-> <<U(srcRowStart + srcCol)>>]
    IN  [t \in 1..(c * h * w) |->
            iteration((t - 1) \div (h * w),
                      ((t - 1) % (h * w)) \div w,
                      (t - 1) % w)]

\* Every outcome of a call of transposePlanar.
TransposeOutcomes(src, h, w, c, dst) ==
    IF ~TransposeValidationPasses(src, h, w, c, dst)
    THEN {Refused(dst)}
    ELSE IF Faults(transposePlanar(src, h, w, c, 0), Len(src), Len(dst)) = {}
         THEN {Returned(dst, transposePlanar(src, h, w, c, 0))}
         ELSE {Returned(dst, transposePlanar(src, h, w, c, g)) : g \in Garbage}
                  \cup {Crashed(dst, transposePlanar(src, h, w, c, 0), Len(src))}

----------------------------------------------------------------------------
\* The caller: one call of one convolution function on arguments drawn from
\* the bounded sets.

Init ==
    /\ kernel \in KernelSet
    /\ height \in 0..MaxDim
    /\ width \in 0..MaxDim
    /\ numChannels \in 0..MaxChannels
    /\ channelIndex \in 0..numChannels
    /\ \E p \in Patterns, n \in ImageLengths(height * width * numChannels) :
           image = Pattern(p, n)
    /\ \E m \in ResultLengths(Len(image)) : result = Blank(m)
    /\ op = "none"
    /\ ret = "none"
    /\ reads = {}
    /\ writes = {}
    /\ back = << >>
    /\ ret2 = "none"
    /\ transposed = << >>
    /\ workingBuffer = << >>
    /\ progress = << >>

\* The call's effect on the caller's state.
Effect(f) ==
    /\ \E o \in Outcomes(f, kernel, image, height, width, numChannels,
                         channelIndex, result) :
           /\ result' = o.result
           /\ ret' = o.ret
           /\ reads' = o.reads
           /\ writes' = o.writes
    /\ op' = f
    /\ UNCHANGED <<kernel, image, height, width, numChannels, channelIndex,
                   back, ret2, passVars>>

CallHorizontalPlanar ==
    /\ op = "none"
    /\ Effect("HorizontalPlanar")

CallVerticalPlanar ==
    /\ op = "none"
    /\ Effect("VerticalPlanar")

CallHorizontalInterleaved ==
    /\ op = "none"
    /\ Effect("HorizontalInterleaved")

CallVerticalInterleaved ==
    /\ op = "none"
    /\ Effect("VerticalInterleaved")

Next ==
    \/ CallHorizontalPlanar
    \/ CallVerticalPlanar
    \/ CallHorizontalInterleaved
    \/ CallVerticalInterleaved

Spec == Init /\ [][Next]_vars

----------------------------------------------------------------------------
\* The caller of transposePlanar: one call on arguments drawn from the bounded
\* sets, then a second call that transposes the first call's destination with
\* height and width swapped.

TransposeInit ==
    /\ kernel = << >>
    /\ height \in 0..MaxDim
    /\ width \in 0..MaxDim
    /\ numChannels \in 0..MaxChannels
    /\ channelIndex = 0
    /\ \E p \in Patterns, n \in ImageLengths(height * width * numChannels) :
           image = Pattern(p, n)
    /\ \E m \in ResultLengths(Len(image)) : result = Blank(m)
    /\ \E m \in ResultLengths(Len(result)) : back = Blank(m)
    /\ op = "none"
    /\ ret = "none"
    /\ reads = {}
    /\ writes = {}
    /\ ret2 = "none"
    /\ transposed = << >>
    /\ workingBuffer = << >>
    /\ progress = << >>

\* transposePlanar(image, height, width, numChannels, result)
CallTranspose ==
    /\ op = "none"
    /\ \E o \in TransposeOutcomes(image, height, width, numChannels, result) :
           /\ result' = o.result
           /\ ret' = o.ret
           /\ reads' = o.reads
           /\ writes' = o.writes
    /\ op' = "transposePlanar"
    /\ UNCHANGED <<kernel, image, height, width, numChannels, channelIndex,
                   back, ret2, passVars>>

\* transposePlanar(result, width, height, numChannels, back), once the first
\* call has returned.  reads and writes keep the first call's accesses.
CallTransposeBack ==
    /\ op = "transposePlanar"
    /\ ret \in {"true", "false"}
    /\ \E o \in TransposeOutcomes(result, width, height, numChannels, back) :
           /\ back' = o.result
           /\ ret2' = o.ret
    /\ op' = "transposeBack"
    /\ UNCHANGED <<kernel, image, height, width, numChannels, channelIndex,
                   result, ret, reads, writes, passVars>>

TransposeNext ==
    \/ CallTranspose
    \/ CallTransposeBack

TransposeSpec == TransposeInit /\ [][TransposeNext]_vars

----------------------------------------------------------------------------
\* The properties checked.  What follows is stated with mathematical
\* (unbounded) integers, in the words of the specification; nothing below
\* uses the operators that model the code.

ConvolutionOps ==
    {"HorizontalPlanar", "VerticalPlanar", "HorizontalInterleaved", "VerticalInterleaved"}

HorizontalOps == {"HorizontalPlanar", "HorizontalInterleaved"}

PlanarOps == {"HorizontalPlanar", "VerticalPlanar"}

\* Center tap of the kernel: length / 2, integer division.
center == Len(kernel) \div 2

\* The four conditions of validation hold of the call's arguments.
Validated ==
    /\ Len(kernel) % 2 = 1
    /\ channelIndex < numChannels
    /\ Len(result) >= Len(image)
    /\ height * width * numChannels <= Len(image)

\* Index of channel ch, row r, column w in the planar layout.
PlanarIndex(ch, r, w) == ch * height * width + r * width + w

\* Index of channel ch, row r, column w in the interleaved layout.
InterleavedIndex(ch, r, w) == r * width * numChannels + w * numChannels + ch

LayoutIndex(f, ch, r, w) ==
    IF f \in PlanarOps THEN PlanarIndex(ch, r, w) ELSE InterleavedIndex(ch, r, w)

\* Sum over k in [0, n) of kernel[k] * image[first + k * stride].
RECURSIVE WeightedSum(_, _, _)
WeightedSum(first, stride, n) ==
    IF n = 0
    THEN 0
    ELSE WeightedSum(first, stride, n - 1)
         + kernel[n] * image[first + (n - 1) * stride + 1]

\* The <<row, column>> positions a convolution along the axis of f computes.
InteriorPositions(f) ==
    IF f \in HorizontalOps
    THEN {<<r, w>> : r \in 0..(height - 1), w \in center..(width - center - 1)}
    ELSE {<<r, w>> : r \in center..(height - center - 1), w \in 0..(width - 1)}

\* The result indices of the interior positions of the selected channel.
InteriorIndices(f) ==
    {LayoutIndex(f, channelIndex, p[1], p[2]) : p \in InteriorPositions(f)}

\* The indices of the selected channel's H*W samples.
ChannelIndices(f) ==
    {LayoutIndex(f, channelIndex, r, w) : r \in 0..(height - 1), w \in 0..(width - 1)}

\* C1: after a validated call of convolve1DHorizontalPlanar, for every row r
\* in [0, H) and column w in [center, W - center),
\* result[channelStart + r*W + w] is the sum over k of
\* kernel[k] * image[channelStart + r*W + (w - center + k)].
C1_HorizontalPlanarSum ==
    (op = "HorizontalPlanar" /\ Validated) =>
        \A r \in 0..(height - 1), w \in center..(width - center - 1) :
            result[PlanarIndex(channelIndex, r, w) + 1]
                = WeightedSum(PlanarIndex(channelIndex, r, w - center), 1, Len(kernel))

\* C1 witness: a returned call on the second channel of a two-row image with
\* a three-tap kernel and an interior column.
C1_Witness ==
    /\ op = "HorizontalPlanar" /\ Validated /\ ret = "true"
    /\ Len(kernel) = 3 /\ channelIndex = 1 /\ height = 2 /\ width = 3

\* C2: after a validated call of convolve1DVerticalPlanar, for every column w
\* in [0, W) and row r in [center, H - center),
\* result[channelStart + r*W + w] is the sum over k of
\* kernel[k] * image[channelStart + (r - center + k)*W + w].
C2_VerticalPlanarSum ==
    (op = "VerticalPlanar" /\ Validated) =>
        \A w \in 0..(width - 1), r \in center..(height - center - 1) :
            result[PlanarIndex(channelIndex, r, w) + 1]
                = WeightedSum(PlanarIndex(channelIndex, r - center, w), width, Len(kernel))

\* C2 witness: a returned call on the second channel of a two-column image
\* with a three-tap kernel and an interior row.
C2_Witness ==
    /\ op = "VerticalPlanar" /\ Validated /\ ret = "true"
    /\ Len(kernel) = 3 /\ channelIndex = 1 /\ height = 3 /\ width = 2

\* C3: after a validated call of convolve1DHorizontalInterleaved, for every
\* row r in [0, H) and pixel column w in [center, W - center),
\* result[r*W*C + w*C + ch] is the sum over k of
\* kernel[k] * image[r*W*C + (w - center + k)*C + ch]: the window steps by C.
C3_HorizontalInterleavedSum ==
    (op = "HorizontalInterleaved" /\ Validated) =>
        \A r \in 0..(height - 1), w \in center..(width - center - 1) :
            result[InterleavedIndex(channelIndex, r, w) + 1]
                = WeightedSum(InterleavedIndex(channelIndex, r, w - center),
                              numChannels, Len(kernel))

\* C3 witness: a returned call on the second channel of a two-row,
\* two-channel image with a three-tap kernel and an interior column.
C3_Witness ==
    /\ op = "HorizontalInterleaved" /\ Validated /\ ret = "true"
    /\ Len(kernel) = 3 /\ channelIndex = 1 /\ numChannels = 2
    /\ height = 2 /\ width = 3

\* C4: after a validated call of convolve1DVerticalInterleaved, for every
\* column w in [0, W) and row r in [center, H - center),
\* result[r*W*C + w*C + ch] is the sum over k of
\* kernel[k] * image[(r - center + k)*W*C + w*C + ch]: the window steps by W*C.
C4_VerticalInterleavedSum ==
    (op = "VerticalInterleaved" /\ Validated) =>
        \A w \in 0..(width - 1), r \in center..(height - center - 1) :
            result[InterleavedIndex(channelIndex, r, w) + 1]
                = WeightedSum(InterleavedIndex(channelIndex, r - center, w),
                              width * numChannels, Len(kernel))

\* C4 witness: a returned call on the second channel of a two-column,
\* two-channel image with a three-tap kernel and an interior row.
C4_Witness ==
    /\ op = "VerticalInterleaved" /\ Validated /\ ret = "true"
    /\ Len(kernel) = 3 /\ channelIndex = 1 /\ numChannels = 2
    /\ height = 3 /\ width = 2

\* C5: after a call of a convolution function that returned true, the result
\* indices written are exactly the interior positions of the selected channel
\* along the convolved axis, and every other result index (border positions,
\* other channels, indices >= H*W*C) keeps its pre-call value.
C5_FrameOfReturnedCall ==
    (op \in ConvolutionOps /\ ret = "true") =>
        /\ writes = InteriorIndices(op)
        /\ \A i \in 0..(Len(result) - 1) :
               i \notin InteriorIndices(op) => result[i + 1] = Blank(Len(result))[i + 1]

\* C6: a convolution call returns false and leaves result unchanged whenever
\* the kernel length is even, channelIndex >= numChannels, result is shorter
\* than image, or H*W*C exceeds the image length; it returns true exactly when
\* none of these holds.
C6_RefusedExactlyWhenInvalid ==
    op \in ConvolutionOps =>
        /\ ~Validated => (ret = "false" /\ result = Blank(Len(result)))
        /\ ret = "true" <=> Validated
        /\ ret = "false" => writes = {}

\* C7: on a validated call of a convolution function, every index read from
\* image and every index written to result is an index of the selected
\* channel's H*W samples, hence below H*W*C, also when the kernel's center is
\* larger than the convolved dimension.
C7_AccessesInsideChannel ==
    (op \in ConvolutionOps /\ Validated) =>
        /\ reads \subseteq ChannelIndices(op)
        /\ writes \subseteq ChannelIndices(op)
        /\ \A i \in reads \cup writes : i < height * width * numChannels

\* C8: a call whose mathematical product H*W*C is greater than the length of
\* the source buffer returns false and accesses no element.
C8_OversizedShapeRefused ==
    (op /= "none" /\ height * width * numChannels > Len(image)) =>
        /\ ret = "false"
        /\ reads = {}
        /\ writes = {}

\* C9: after a call of transposePlanar that returned true, for every channel
\* ch in [0, C), row in [0, H) and col in [0, W),
\* dst[ch*H*W + col*H + row] = src[ch*H*W + row*W + col], and every dst index
\* >= H*W*C keeps its pre-call value.
C9_TransposeRelocates ==
    (op = "transposePlanar" /\ ret = "true") =>
        /\ \A ch \in 0..(numChannels - 1), row \in 0..(height - 1), col \in 0..(width - 1) :
               /\ ch * height * width + col * height + row < Len(result)
               /\ ch * height * width + row * width + col < Len(image)
               /\ result[ch * height * width + col * height + row + 1]
                      = image[ch * height * width + row * width + col + 1]
        /\ \A i \in (height * width * numChannels)..(Len(result) - 1) :
               result[i + 1] = Blank(Len(result))[i + 1]

\* C10: for a planar buffer a of length H*W*C and buffers b and c of the same
\* length, transposePlanar(a, H, W, C, b) and then transposePlanar(b, W, H,
\* C, c) both return true and leave c equal to a.
C10_TransposeRoundTrip ==
    (/\ op = "transposeBack"
     /\ Len(image) = height * width * numChannels
     /\ Len(result) = Len(image)
     /\ Len(back) = Len(image)) =>
        /\ ret = "true"
        /\ ret2 = "true"
        /\ back = image

\* C10 witness: the round trip of a two-channel image with H /= W done.
C10_Witness ==
    /\ op = "transposeBack"
    /\ Len(image) = height * width * numChannels
    /\ Len(result) = Len(image)
    /\ Len(back) = Len(image)
    /\ ret2 = "true"
    /\ numChannels = 2 /\ height = 2 /\ width = 3

----------------------------------------------------------------------------
\* The caller of both layouts: one logical image of shape H x W x C, held in
\* image in the planar layout; convolve1DHorizontalPlanar runs on it into
\* result, then convolve1DHorizontalInterleaved runs on its interleaved
\* encoding into back, with the same kernel, shape and channel.

\* The interleaved encoding of the planar image: sample (ch, r, w), at
\* ch*H*W + r*W + w in the planar layout, is at r*W*C + w*C + ch.
ToInterleaved(planar, h, w, c) ==
    [i \in 1..(h * w * c) |->
        planar[((i - 1) % c) * h * w
               + (((i - 1) \div c) \div w) * w
               + (((i - 1) \div c) % w) + 1]]

LayoutInit ==
    /\ kernel \in KernelSet
    /\ height \in 0..MaxDim
    /\ width \in 0..MaxDim
    /\ numChannels \in 0..MaxChannels
    /\ height * width * numChannels <= MaxLen
    /\ channelIndex \in 0..numChannels
    /\ \E p \in Patterns : image = Pattern(p, height * width * numChannels)
    /\ \E m \in ResultLengths(Len(image)) : result = Blank(m)
    /\ back = Blank(Len(result))
    /\ op = "none"
    /\ ret = "none"
    /\ reads = {}
    /\ writes = {}
    /\ ret2 = "none"
    /\ transposed = << >>
    /\ workingBuffer = << >>
    /\ progress = << >>

\* convolve1DHorizontalPlanar(kernel, image, H, W, C, channelIndex, result)
LayoutCallPlanar ==
    /\ op = "none"
    /\ Effect("HorizontalPlanar")

\* convolve1DHorizontalInterleaved(kernel, interleaved image, H, W, C,
\* channelIndex, back), once the planar call has returned.  reads and writes
\* keep the planar call's accesses.
LayoutCallInterleaved ==
    /\ op = "HorizontalPlanar"
    /\ ret \in {"true", "false"}
    /\ \E o \in Outcomes("HorizontalInterleaved", kernel,
                         ToInterleaved(image, height, width, numChannels),
                         height, width, numChannels, channelIndex, back) :
           /\ back' = o.result
           /\ ret2' = o.ret
    /\ op' = "bothLayouts"
    /\ UNCHANGED <<kernel, image, height, width, numChannels, channelIndex,
                   result, ret, reads, writes, passVars>>

LayoutNext ==
    \/ LayoutCallPlanar
    \/ LayoutCallInterleaved

LayoutSpec == LayoutInit /\ [][LayoutNext]_vars

\* C11: for one logical image held in the planar and in the interleaved
\* layout, an odd kernel, a channel ch < C and results as long as the image,
\* after
\* convolve1DHorizontalPlanar and convolve1DHorizontalInterleaved with the same
\* H, W, C, ch the results agree at every interior position:
\* resultP[ch*H*W + r*W + w] = resultI[r*W*C + w*C + ch] for r in [0, H),
\* w in [center, W - center).
C11_LayoutsAgree ==
    (/\ op = "bothLayouts"
     /\ Validated
     /\ Len(back) >= height * width * numChannels) =>
        \A r \in 0..(height - 1), w \in center..(width - center - 1) :
            result[PlanarIndex(channelIndex, r, w) + 1]
                = back[InterleavedIndex(channelIndex, r, w) + 1]

\* C11 witness: both calls returned true on the second channel of a two-row,
\* two-channel image with a three-tap kernel and an interior column.
C11_Witness ==
    /\ op = "bothLayouts" /\ ret = "true" /\ ret2 = "true"
    /\ Len(kernel) = 3 /\ channelIndex = 1 /\ numChannels = 2
    /\ height = 2 /\ width = 3
    /\ result[PlanarIndex(1, 0, 1) + 1] > 0

----------------------------------------------------------------------------
\* The caller that makes the vertical pass two ways on one planar image of
\* shape H x W x C.  Through the transposition: transposePlanar into
\* transposed, convolve1DHorizontalPlanar on transposed with height and width
\* swapped into the zeroed workingBuffer, transposePlanar of workingBuffer
\* with height and width swapped into result.  Directly:
\* convolve1DVerticalPlanar into the zeroed back.

\* A zeroed buffer of n floats.
Zeros(n) == [i \in 1..n |-> 0]

PassInit ==
    /\ kernel \in KernelSet
    /\ height \in 0..MaxDim
    /\ width \in 0..MaxDim
    /\ numChannels \in 0..MaxChannels
    /\ height * width * numChannels <= MaxLen
    /\ channelIndex \in 0..numChannels
    /\ \E p \in Patterns : image = Pattern(p, height * width * numChannels)
    /\ transposed = Blank(Len(image))
    /\ workingBuffer = Zeros(Len(image))
    /\ result = Blank(Len(image))
    /\ back = Zeros(Len(image))
    /\ op = "none"
    /\ ret = "none"
    /\ ret2 = "none"
    /\ reads = {}
    /\ writes = {}
    /\ progress = << >>

\* transposePlanar(image, H, W, C, transposed)
PassTranspose ==
    /\ op = "none"
    /\ \E o \in TransposeOutcomes(image, height, width, numChannels, transposed) :
           /\ transposed' = o.result
           /\ ret' = o.ret
    /\ op' = "transposed"
    /\ UNCHANGED <<kernel, image, height, width, numChannels, channelIndex,
                   result, reads, writes, back, ret2, workingBuffer, progress>>

\* convolve1DHorizontalPlanar(kernel, transposed, W, H, C, channelIndex,
\* workingBuffer), once the transposition has returned true.
PassConvolveTransposed ==
    /\ op = "transposed"
    /\ ret = "true"
    /\ \E o \in Outcomes("HorizontalPlanar", kernel, transposed, width, height,
                         numChannels, channelIndex, workingBuffer) :
           /\ workingBuffer' = o.result
           /\ ret' = o.ret
    /\ op' = "convolved"
    /\ UNCHANGED <<kernel, image, height, width, numChannels, channelIndex,
                   result, reads, writes, back, ret2, transposed, progress>>

\* transposePlanar(workingBuffer, W, H, C, result), once the convolution has
\* returned true.
PassTransposeBack ==
    /\ op = "convolved"
    /\ ret = "true"
    /\ \E o \in TransposeOutcomes(workingBuffer, width, height, numChannels, result) :
           /\ result' = o.result
           /\ ret' = o.ret
    /\ op' = "transposedBack"
    /\ UNCHANGED <<kernel, image, height, width, numChannels, channelIndex,
                   reads, writes, back, ret2, transposed, workingBuffer, progress>>

\* convolve1DVerticalPlanar(kernel, image, H, W, C, channelIndex, back)
PassVertical ==
    /\ ret2 = "none"
    /\ \E o \in Outcomes("VerticalPlanar", kernel, image, height, width,
                         numChannels, channelIndex, back) :
           /\ back' = o.result
           /\ ret2' = o.ret
    /\ UNCHANGED <<kernel, image, height, width, numChannels, channelIndex,
                   result, op, ret, reads, writes, transposed, workingBuffer,
                   progress>>

PassNext ==
    \/ PassTranspose
    \/ PassConvolveTransposed
    \/ PassTransposeBack
    \/ PassVertical

PassSpec == PassInit /\ [][PassNext]_vars

\* Both ways of the vertical pass have returned true.
BothPassesReturned ==
    /\ op = "transposedBack"
    /\ ret = "true"
    /\ ret2 = "true"

\* C12: for every planar image of shape H x W x C, odd kernel and channel ch,
\* transposing the image with (H, W), running convolve1DHorizontalPlanar on
\* the transposed image with (W, H) into a zeroed buffer and transposing that
\* result back with (W, H) yields the same buffer as convolve1DVerticalPlanar
\* on the image with (H, W) into a zeroed buffer.
C12_VerticalViaTranspose ==
    (BothPassesReturned /\ Validated) => result = back

----------------------------------------------------------------------------
\* transposePlanar's validation, checked in TransposeSpec.

\* The first call of TransposeSpec wrote nothing.
TransposeWroteNothing ==
    /\ writes = {}
    /\ result = Blank(Len(result))

\* C13 as stated: transposePlanar returns false, writing nothing, if and only
\* if the source buffer is longer than the destination buffer, and returns
\* true for every other combination of src, dst, H, W and C.
C13_OnlyLengthsValidated ==
    op = "transposePlanar" =>
        /\ Len(image) > Len(result) => (ret = "false" /\ TransposeWroteNothing)
        /\ Len(image) <= Len(result) => ret = "true"

\* C13 amended: transposePlanar returns false, writing nothing, if and only if
\* the source buffer is longer than the destination buffer or
\* height * width * numChannels, computed in unsigned int, is greater than the
\* length of the source buffer; for every other combination it does not
\* refuse: it returns true whenever each of its accesses is inside the
\* vectors.
C13_LengthsAndShapeValidated ==
    op = "transposePlanar" =>
        /\ ret = "false" <=>
               \/ Len(image) > Len(result)
               \/ (((height * width) % Modulus) * numChannels) % Modulus > Len(image)
        /\ ret = "false" => TransposeWroteNothing
        /\ (/\ ret /= "false"
            /\ reads \subseteq 0..(Len(image) - 1)
            /\ writes \subseteq 0..(Len(result) - 1)) => ret = "true"

\* C13 witness: a call refused for its shape alone, the destination being as
\* long as the source.
C13_Witness ==
    /\ op = "transposePlanar" /\ ret = "false"
    /\ Len(image) <= Len(result)
    /\ height * width * numChannels > Len(image)

\* C14: for every src of length >= H*W*C and every dst of length >= H*W*C,
\* even a dst shorter than src, transposePlanar returns true and writes the
\* transposed image.
C14_DestinationOfShapeSizeAccepted ==
    (/\ op = "transposePlanar"
     /\ Len(image) >= height * width * numChannels
     /\ Len(result) >= height * width * numChannels) =>
        /\ ret = "true"
        /\ \A ch \in 0..(numChannels - 1), row \in 0..(height - 1), col \in 0..(width - 1) :
               result[ch * height * width + col * height + row + 1]
                   = image[ch * height * width + row * width + col + 1]

----------------------------------------------------------------------------
\* measureRuntimeBlur1D (the timing is not modelled), called by main once with
\* a transposeFn and once without one, on the same src.  result is the dst of
\* the call with transposeFn, back the dst of the call without it.

\* The sizes of BlurKernelT that main instantiates.
BlurKernelSizes == {3, 7}

\* std::fill(blurKernel.begin(), blurKernel.end(), contribution): every weight
\* is the same; the model scales it to the integer 1.
BlurKernel(size) == [i \in 1..size |-> 1]

\* What a pass leaves: "true" with the buffer, or "crash".
Left(r, buffer) == [ret |-> r, result |-> buffer]

\* for (auto i = 0U; i < depth; i++) { fn(blurKernel, src, height, width,
\* depth, i, dst); }, from channel i on.  The value fn returns is ignored.
RECURSIVE ChannelPasses(_, _, _, _, _, _, _, _)
ChannelPasses(f, k, src, h, w, depth, i, dst) ==
    IF ~(i < depth)
    THEN {Left("true", dst)}
    ELSE UNION {IF o.ret = "crash"
                THEN {Left("crash", o.result)}
                ELSE ChannelPasses(f, k, src, h, w, depth, i + 1, o.result) :
                    o \in Outcomes(f, k, src, h, w, depth, i, dst)}

\* The branch of measureRuntimeBlur1D taken with a transposeFn, from the dst
\* left by the horizontal pass: transposeFn(dst, height, width, depth,
\* transposed); the horizontal pass on transposed with (height, width) into
\* workingBuffer; transposeFn(workingBuffer, height, width, depth, dst).
TransposeBranch(hf, k, h, w, depth, dst) ==
    UNION {IF t.ret = "crash"
           THEN {Left("crash", dst)}
           ELSE UNION {IF b.ret = "crash"
                       THEN {Left("crash", dst)}
                       ELSE {Left(IF u.ret = "crash" THEN "crash" ELSE "true", u.result) :
                                u \in TransposeOutcomes(b.result, h, w, depth, dst)} :
                           b \in ChannelPasses(hf, k, t.result, h, w, depth, 0,
                                               Zeros(Len(dst)))} :
               t \in TransposeOutcomes(dst, h, w, depth, Zeros(Len(dst)))}

\* The branch taken without a transposeFn: the vertical pass on dst into
\* workingBuffer, then std::copy of workingBuffer into dst.
VerticalBranch(vf, k, h, w, depth, dst) ==
    {Left(b.ret, IF b.ret = "crash" THEN dst ELSE b.result) :
        b \in ChannelPasses(vf, k, dst, h, w, depth, 0, Zeros(Len(dst)))}

\* measureRuntimeBlur1D<BlurKernelT>(src, height, width, depth,
\* horizontalConvolveFn, transposeFn, verticalConvolveFn, dst), size being
\* the size of BlurKernelT and withTranspose whether transposeFn is set.
measureRuntimeBlur1D(size, src, h, w, depth, hf, withTranspose, vf, dst) ==
    IF size % 2 /= 1
    THEN {Left("true", dst)}
    ELSE UNION {IF a.ret = "crash"
                THEN {Left("crash", a.result)}
                ELSE IF withTranspose
                     THEN TransposeBranch(hf, BlurKernel(size), h, w, depth, a.result)
                     ELSE VerticalBranch(vf, BlurKernel(size), h, w, depth, a.result) :
                    a \in ChannelPasses(hf, BlurKernel(size), src, h, w, depth, 0,
                                        Zeros(Len(dst)))}

\* main: H, W and D are positive, src has H*W*D floats and dst src.size().
BlurInit ==
    /\ \E size \in BlurKernelSizes : kernel = BlurKernel(size)
    /\ height \in 1..MaxDim
    /\ width \in 1..MaxDim
    /\ numChannels \in 1..MaxChannels
    /\ height * width * numChannels <= MaxLen
    /\ \E p \in Patterns : image = Pattern(p, height * width * numChannels)
    /\ result = Blank(Len(image))
    /\ back = Blank(Len(image))
    /\ channelIndex = 0
    /\ op = "none"
    /\ ret = "none"
    /\ ret2 = "none"
    /\ reads = {}
    /\ writes = {}
    /\ transposed = << >>
    /\ workingBuffer = << >>
    /\ progress = << >>

\* measureRuntimeBlur1D(src, H, W, D, horizPlanarBlur, transposePlanarFn,
\* vertPlanarBlur, dst)
MeasureWithTranspose ==
    /\ ret = "none"
    /\ \E o \in measureRuntimeBlur1D(Len(kernel), image, height, width, numChannels,
                                     "HorizontalPlanar", TRUE, "VerticalPlanar",
                                     result) :
           /\ result' = o.result
           /\ ret' = o.ret
    /\ UNCHANGED <<kernel, image, height, width, numChannels, channelIndex, op,
                   reads, writes, back, ret2, passVars>>

\* measureRuntimeBlur1D(src, H, W, D, horizPlanarBlur, noTransposeFn,
\* vertPlanarBlur, dst)
MeasureWithoutTranspose ==
    /\ ret2 = "none"
    /\ \E o \in measureRuntimeBlur1D(Len(kernel), image, height, width, numChannels,
                                     "HorizontalPlanar", FALSE, "VerticalPlanar",
                                     back) :
           /\ back' = o.result
           /\ ret2' = o.ret
    /\ UNCHANGED <<kernel, image, height, width, numChannels, channelIndex, op,
                   reads, writes, result, ret, passVars>>

BlurNext ==
    \/ MeasureWithTranspose
    \/ MeasureWithoutTranspose

BlurSpec == BlurInit /\ [][BlurNext]_vars

\* C15: measureRuntimeBlur1D with the planar functions, for every height,
\* width, depth and src of height*width*depth floats: the dst left by the call
\* with the transposition equals, element for element, the dst left by the
\* call without it.
C15_TransposePathComparable ==
    (ret = "true" /\ ret2 = "true") => result = back

----------------------------------------------------------------------------
\* One call per channel of one convolution function, on the same image and
\* the same result buffer, the calls running concurrently: a step is one
\* iteration of one call's inner loop body (the reads of the window and the
\* store of the sum).  op is the function, fixed from the start; progress[ch]
\* is the call for channel ch: what it returned ("none" before it starts,
\* "running" in its loops), the iterations it has done, the value its reads
\* outside the image yield, and the result indices it has written.

\* Largest height and width of the images the concurrent calls are given.
MaxSharedDim == 3

\* The kernels the concurrent calls are given.
SharedKernels == {k \in KernelSet : Len(k) \in {2, 3}}

ChannelInit ==
    /\ op \in {"HorizontalPlanar", "VerticalPlanar",
               "HorizontalInterleaved", "VerticalInterleaved"}
    /\ kernel \in SharedKernels
    /\ height \in 0..MaxSharedDim
    /\ width \in 0..MaxSharedDim
    /\ numChannels \in 0..MaxChannels
    /\ \E n \in ImageLengths(height * width * numChannels) : image = Pattern(1, n)
    /\ result = Blank(Len(image))
    /\ progress = [ch \in 0..(numChannels - 1) |->
                      [ret |-> "none", done |-> 0, garbage |-> 0, writes |-> {}]]
    /\ channelIndex = 0
    /\ ret = "none"
    /\ ret2 = "none"
    /\ reads = {}
    /\ writes = {}
    /\ back = << >>
    /\ transposed = << >>
    /\ workingBuffer = << >>

\* The stores of the call for channel ch.
ChannelStores(ch) ==
    StoresOf(op, kernel, image, height, width, numChannels, ch, progress[ch].garbage)

\* The number of iterations of the call for channel ch: the outer loop runs
\* over the rows (horizontal) or the columns (vertical), the inner loop over
\* [center, dimension - center).
ChannelIterations(ch) ==
    IF op \in {"HorizontalPlanar", "HorizontalInterleaved"}
    THEN height * InnerCount(width, Center(kernel))
    ELSE width * InnerCount(height, Center(kernel))

\* No call has ended the process.
Alive == \A ch \in DOMAIN progress : progress[ch].ret /= "crash"

\* The call for channel ch starts: its validation.
ChannelCall ==
    \E ch \in DOMAIN progress :
        /\ Alive
        /\ progress[ch].ret = "none"
        /\ IF ~ValidationPasses(kernel, image, height, width, numChannels, ch, result)
           THEN progress' = [progress EXCEPT ![ch].ret = "false"]
           ELSE \E g \in (IF Faults(ChannelStores(ch), Len(image), Len(result)) = {}
                          THEN {0} ELSE Garbage) :
                    progress' = [progress EXCEPT ![ch].ret = "running",
                                                 ![ch].garbage = g]
        /\ UNCHANGED <<kernel, image, height, width, numChannels, channelIndex,
                       result, op, ret, reads, writes, back, ret2, transposed,
                       workingBuffer>>

\* One iteration of the call for channel ch with every access inside the
\* vectors, or the outcome of an iteration with an access outside them in
\* which the run goes on (a write outside result is dropped).
ChannelStore ==
    \E ch \in DOMAIN progress :
        /\ Alive
        /\ progress[ch].ret = "running"
        /\ progress[ch].done < ChannelIterations(ch)
        /\ LET s == ChannelStores(ch)[progress[ch].done + 1]
           IN  IF s.at < Len(result)
               THEN /\ result' = [result EXCEPT ![s.at + 1] = s.val]
                    /\ progress' = [progress EXCEPT
                                       ![ch].done = @ + 1,
                                       ![ch].writes = @ \cup {s.at}]
               ELSE /\ result' = result
                    /\ progress' = [progress EXCEPT ![ch].done = @ + 1]
        /\ UNCHANGED <<kernel, image, height, width, numChannels, channelIndex,
                       op, ret, reads, writes, back, ret2, transposed,
                       workingBuffer>>

\* The outcome of an iteration with an access outside the vectors in which
\* the run stops there.
ChannelCrash ==
    \E ch \in DOMAIN progress :
        /\ Alive
        /\ progress[ch].ret = "running"
        /\ progress[ch].done < ChannelIterations(ch)
        /\ ~InBounds(ChannelStores(ch)[progress[ch].done + 1], Len(image), Len(result))
        /\ progress' = [progress EXCEPT ![ch].ret = "crash"]
        /\ UNCHANGED <<kernel, image, height, width, numChannels, channelIndex,
                       result, op, ret, reads, writes, back, ret2, transposed,
                       workingBuffer>>

\* The call for channel ch leaves its loops: return true.
ChannelReturn ==
    \E ch \in DOMAIN progress :
        /\ Alive
        /\ progress[ch].ret = "running"
        /\ progress[ch].done = ChannelIterations(ch)
        /\ progress' = [progress EXCEPT ![ch].ret = "true"]
        /\ UNCHANGED <<kernel, image, height, width, numChannels, channelIndex,
                       result, op, ret, reads, writes, back, ret2, transposed,
                       workingBuffer>>

ChannelNext ==
    \/ ChannelCall
    \/ ChannelStore
    \/ ChannelCrash
    \/ ChannelReturn

ChannelSpec == ChannelInit /\ [][ChannelNext]_vars

\* The sum the convolution of f defines at row r, column w of channel ch.
ConvolutionAt(f, ch, r, w) ==
    CASE f = "HorizontalPlanar" ->
             WeightedSum(PlanarIndex(ch, r, w - center), 1, Len(kernel))
      [] f = "VerticalPlanar" ->
             WeightedSum(PlanarIndex(ch, r - center, w), width, Len(kernel))
      [] f = "HorizontalInterleaved" ->
             WeightedSum(InterleavedIndex(ch, r, w - center), numChannels, Len(kernel))
      [] f = "VerticalInterleaved" ->
             WeightedSum(InterleavedIndex(ch, r - center, w), width * numChannels,
                         Len(kernel))

\* The call of every channel in [0, C) has returned true.
EveryChannelReturned ==
    \A ch \in DOMAIN progress : progress[ch].ret = "true"

\* The result indices of the interior positions of all the channels.
InteriorOfAllChannels ==
    {LayoutIndex(op, ch, p[1], p[2]) :
        ch \in 0..(numChannels - 1), p \in InteriorPositions(op)}

\* C16: for any one of the four convolution functions, fixed image, kernel,
\* H, W, C and a shared result buffer, the calls for different channel
\* indices write pairwise disjoint sets of result indices; hence after one
\* call per channel in [0, C), in any order or interleaving of the calls, the
\* result buffer is the same: each channel's interior holds that channel's
\* convolution and every other element its value from before the calls.
C16_ChannelsIndependent ==
    /\ \A c1 \in DOMAIN progress, c2 \in DOMAIN progress :
           c1 /= c2 => progress[c1].writes \cap progress[c2].writes = {}
    /\ EveryChannelReturned =>
           /\ height * width * numChannels <= Len(image)
           /\ \A ch \in 0..(numChannels - 1) : \A p \in InteriorPositions(op) :
                  result[LayoutIndex(op, ch, p[1], p[2]) + 1]
                      = ConvolutionAt(op, ch, p[1], p[2])
           /\ \A i \in 0..(Len(result) - 1) :
                  i \notin InteriorOfAllChannels =>
                      result[i + 1] = Blank(Len(result))[i + 1]

====
